---- MODULE Spec2Model ----
(***************************************************************************)
(* Model of cookbooks/python/openai/How_to_stream_completions.ipynb.       *)
(*                                                                         *)
(* The notebook is a script of six code cells run top to bottom in one     *)
(* kernel: configuration (cell 1), a blocking chat completion (cells 2-3), *)
(* a streamed completion that is only printed (cell 4), the timed stream   *)
(* consumer (cell 5) and the dump of the last chunk (cell 6).  An uncaught *)
(* exception stops the run.  The state is the process environment, the     *)
(* kernel's global names, and the transport's side of the open stream.     *)
(***************************************************************************)
EXTENDS Integers, Sequences, FiniteSets, TLC

\* ----------------------------------------------------------------- bounds
MaxFrags == 3      \* fragments one stream delivers at most
MaxTime  == 2      \* readings of time.time() are drawn from 0..MaxTime
MaxRuns  == 3      \* executions of the streaming cell in one kernel (SpecRerun)

\* -------------------------------------------------------------- constants
None  == "<None>"      \* Python's None
Unset == "<unset>"     \* a name os.environ does not hold

GITHUB_TOKEN    == "GITHUB_TOKEN"
OPENAI_API_KEY  == "OPENAI_API_KEY"
OPENAI_BASE_URL == "OPENAI_BASE_URL"
EnvNames        == {GITHUB_TOKEN, OPENAI_API_KEY, OPENAI_BASE_URL}
BaseUrl         == "https://models.github.ai/inference"

Times == 0..MaxTime

\* A streamed chunk holds a list of choices; the consumer reads choices[0].delta.
Delta(role, content) == [role |-> role, content |-> content]
Chunk(choices)       == [choices |-> choices]

RoleChunk    == Chunk(<<Delta("assistant", "")>>)      \* role='assistant', content=''
ContentChunk == Chunk(<<Delta(None, "Two")>>)          \* content='Two'
BothChunk    == Chunk(<<Delta("assistant", "One")>>)   \* role and content together
EmptyChunk   == Chunk(<<Delta(None, None)>>)           \* delta {}
NoChoices    == Chunk(<<>>)                            \* choices == []

Chunks      == {RoleChunk, ContentChunk, BothChunk, EmptyChunk, NoChoices}
RerunChunks == {ContentChunk, NoChoices}

\* Contents the blocking call may return in choices[0].message.content.
Replies == {"One", "Two"}

VARIABLES
  env,                 \* os.environ restricted to EnvNames
  dotenvFile,          \* the key/value pairs of the .env file dotenv finds
  pc,                  \* the cell about to run, "loop", "end" or "failed"
  err,                 \* the exception that stopped the run, "" if none
  defined,             \* the global names the kernel has bound
  client,              \* the api_key and base_url OpenAI() read at construction
  calls,               \* requests issued to the transport, per cell
  start_time,          \* time.time() before the latest request
  reply_content,       \* cell 3
  collected_chunks,    \* cell 5
  collected_messages,  \* cell 5
  chunk_time,          \* cell 5
  full_reply_content,  \* cell 5
  stream,              \* transport: "none", "open", "closed" or "broken"
  delivered,           \* transport: the chunks the open stream has yielded
  pulls,               \* transport: next() calls made on the stream
  firstRun             \* history: how the kernel's first consumed stream ended

vars == <<env, dotenvFile, pc, err, defined, client, calls, start_time,
          reply_content, collected_chunks, collected_messages, chunk_time,
          full_reply_content, stream, delivered, pulls, firstRun>>

cfgVars    == <<env, dotenvFile, client>>
kernelVars == <<reply_content, collected_chunks, collected_messages,
                chunk_time, full_reply_content>>
wireVars   == <<stream, delivered, pulls>>

\* ------------------------------------------------------------ pure helpers

\* Python truthiness of what os.getenv returns: None and '' are falsy.
Truthy(v) == v # Unset /\ v # ""

\* dotenv.load_dotenv(), override=False: a key of the file is set only where
\* the environment holds no value for it.
LoadDotenv(e, f) == [k \in EnvNames |-> IF e[k] = Unset THEN f[k] ELSE e[k]]

\* A check that only asks whether the variable exists.
TokenMissingUnsetOnly(e) == e[GITHUB_TOKEN] = Unset

\* if not os.getenv("GITHUB_TOKEN")
TokenMissing(e) == ~Truthy(e[GITHUB_TOKEN])

\* An injection that keeps a value the environment already holds (setdefault).
InjectSetDefault(e) ==
  [e EXCEPT ![OPENAI_API_KEY]  = IF @ = Unset THEN e[GITHUB_TOKEN] ELSE @,
            ![OPENAI_BASE_URL] = IF @ = Unset THEN BaseUrl ELSE @]

\* os.environ["OPENAI_API_KEY"] = ...; os.environ["OPENAI_BASE_URL"] = ...
Inject(e) == [e EXCEPT ![OPENAI_API_KEY]  = e[GITHUB_TOKEN],
                       ![OPENAI_BASE_URL] = BaseUrl]

\* OpenAI() with no arguments reads both settings from the environment.
NewClient(e) == [api_key |-> e[OPENAI_API_KEY], base_url |-> e[OPENAI_BASE_URL]]
NoClient     == [api_key |-> Unset, base_url |-> Unset]

\* A join that takes a delta carrying a role for a role marker only.
ContentUnlessRole(m) ==
  IF m.role # None \/ m.content = None THEN "" ELSE m.content

\* m.content or ''
ContentOrEmpty(m) == IF m.content = None THEN "" ELSE m.content

\* ''.join([m.content or '' for m in collected_messages])
RECURSIVE JoinContent(_)
JoinContent(ms) ==
  IF ms = <<>> THEN "" ELSE ContentOrEmpty(Head(ms)) \o JoinContent(Tail(ms))

\* A log that keeps only the chunks whose first choice carries content.
SaveChunkIfContent(log, chunk) ==
  IF chunk.choices # <<>> /\ chunk.choices[1].content \notin {None, ""}
  THEN Append(log, chunk) ELSE log

\* collected_chunks.append(chunk)
SaveChunk(log, chunk) == Append(log, chunk)

\* chunk_message = chunk.choices[0].delta; collected_messages.append(chunk_message)
SaveMessage(msgs, chunk) == Append(msgs, chunk.choices[1])

\* How one consumed stream ended, as the caller sees it.
NoRun == [set |-> FALSE, frags |-> <<>>, status |-> "", text |-> "", log |-> <<>>]
Outcome(frags, status, text, log) ==
  [set |-> TRUE, frags |-> frags, status |-> status, text |-> text, log |-> log]
Record(o) == IF firstRun.set THEN firstRun ELSE o

Raise(e) == pc' = "failed" /\ err' = e

\* ------------------------------------------------------------------ Init

EnvStates ==
  { [k \in EnvNames |-> CASE k = GITHUB_TOKEN   -> t
                          [] k = OPENAI_API_KEY -> a
                          [] OTHER              -> Unset] :
      t \in {Unset, "", "ghp_env"}, a \in {Unset, "sk-old"} }

DotenvFiles ==
  { [k \in EnvNames |-> CASE k = GITHUB_TOKEN   -> t
                          [] k = OPENAI_API_KEY -> a
                          [] OTHER              -> Unset] :
      t \in {Unset, "ghp_file"}, a \in {Unset, "sk-file"} }

InitKernel ==
  /\ pc = "cell1"
  /\ err = ""
  /\ defined = {}
  /\ client = NoClient
  /\ calls = [c \in {"cell2", "cell4", "cell5"} |-> 0]
  /\ start_time = 0
  /\ reply_content = None
  /\ collected_chunks = <<>>
  /\ collected_messages = <<>>
  /\ chunk_time = 0
  /\ full_reply_content = ""
  /\ stream = "none"
  /\ delivered = <<>>
  /\ pulls = 0
  /\ firstRun = NoRun

Init ==
  /\ env \in EnvStates
  /\ dotenvFile \in DotenvFiles
  /\ InitKernel

\* --------------------------------------------------------------- actions

\* Cell 1: load .env, require GITHUB_TOKEN, inject the two settings, build
\* the client.
Cell1 ==
  /\ pc = "cell1"
  /\ LET e == LoadDotenv(env, dotenvFile) IN
       IF TokenMissing(e)
       THEN /\ env' = e
            /\ Raise("ValueError")
            /\ UNCHANGED <<defined, client>>
       ELSE /\ env' = Inject(e)
            /\ client' = NewClient(Inject(e))
            /\ defined' = defined \cup {"GPT_MODEL", "client"}
            /\ pc' = "cell2"
            /\ err' = err
  /\ UNCHANGED <<dotenvFile, calls, start_time, kernelVars, wireVars, firstRun>>

\* Cells 2 and 3: the blocking request and the extraction of its content.
\* t is time.time() before the request; ok is whether create() returned.
Cell2(t, ok, reply) ==
  /\ pc = "cell2"
  /\ start_time' = t
  /\ calls' = [calls EXCEPT !["cell2"] = @ + 1]
  /\ IF ok
     THEN /\ reply_content' = reply
          /\ defined' = defined \cup {"start_time", "response", "reply_content"}
          /\ pc' = "cell4"
          /\ err' = err
     ELSE /\ Raise("APIError")
          /\ defined' = defined \cup {"start_time"}
          /\ UNCHANGED reply_content
  /\ UNCHANGED <<cfgVars, collected_chunks, collected_messages, chunk_time,
                 full_reply_content, wireVars, firstRun>>

\* Cell 4: a streamed request whose chunks are printed and not kept.
Cell4(ok) ==
  /\ pc = "cell4"
  /\ calls' = [calls EXCEPT !["cell4"] = @ + 1]
  /\ IF ok THEN pc' = "cell5" /\ err' = err ELSE Raise("APIError")
  /\ UNCHANGED <<cfgVars, defined, start_time, kernelVars, wireVars, firstRun>>

\* Cell 5, up to the loop: start_time, the request, the two empty lists.
\* When create() raises, the lists keep what an earlier run left in them.
Cell5(t, ok) ==
  /\ pc = "cell5"
  /\ start_time' = t
  /\ calls' = [calls EXCEPT !["cell5"] = @ + 1]
  /\ delivered' = <<>>
  /\ pulls' = 0
  /\ IF ok
     THEN /\ stream' = "open"
          /\ collected_chunks' = <<>>
          /\ collected_messages' = <<>>
          /\ defined' = defined \cup {"collected_chunks", "collected_messages"}
          /\ pc' = "loop"
          /\ err' = err
     ELSE /\ stream' = "none"
          /\ Raise("APIError")
          /\ UNCHANGED <<collected_chunks, collected_messages, defined>>
  /\ UNCHANGED <<cfgVars, reply_content, chunk_time, full_reply_content, firstRun>>

\* One iteration of the loop: the stream yields chunk and time.time() reads t.
\* The chunk is saved before choices[0] is read, which raises IndexError on a
\* chunk with no choices.
PullChunk(chunk, t) ==
  /\ pc = "loop"
  /\ Len(delivered) < MaxFrags
  /\ delivered' = Append(delivered, chunk)
  /\ pulls' = pulls + 1
  /\ chunk_time' = t - start_time
  /\ defined' = defined \cup {"chunk_time"}
  /\ collected_chunks' = SaveChunk(collected_chunks, chunk)
  /\ IF chunk.choices = <<>>
     THEN /\ Raise("IndexError")
          /\ stream' = "open"
          /\ firstRun' = Record(Outcome(delivered', "IndexError", "",
                                        collected_chunks'))
          /\ UNCHANGED collected_messages
     ELSE /\ collected_messages' = SaveMessage(collected_messages, chunk)
          /\ UNCHANGED <<pc, err, stream, firstRun>>
  /\ UNCHANGED <<cfgVars, calls, start_time, reply_content, full_reply_content>>

\* The stream ends: the loop exits and the report after it runs.  Its first
\* line formats chunk_time, a name only the loop body binds.
StreamClosed ==
  /\ pc = "loop"
  /\ pulls' = pulls + 1
  /\ stream' = "closed"
  /\ IF "chunk_time" \notin defined
     THEN /\ Raise("NameError")
          /\ firstRun' = Record(Outcome(delivered, "NameError", "",
                                        collected_chunks))
          /\ UNCHANGED <<full_reply_content, defined>>
     ELSE /\ full_reply_content' = JoinContent(collected_messages)
          /\ defined' = defined \cup {"full_reply_content"}
          /\ pc' = "cell6"
          /\ err' = err
          /\ firstRun' = Record(Outcome(delivered, "done", full_reply_content',
                                        collected_chunks))
  /\ UNCHANGED <<cfgVars, calls, start_time, reply_content, collected_chunks,
                 collected_messages, chunk_time, delivered>>

\* A loop that catches the transport's failure and goes on to the report.
StreamErrorSwallowed ==
  /\ pc = "loop"
  /\ pulls' = pulls + 1
  /\ stream' = "broken"
  /\ full_reply_content' = JoinContent(collected_messages)
  /\ defined' = defined \cup {"full_reply_content"}
  /\ pc' = "cell6"
  /\ err' = err
  /\ firstRun' = Record(Outcome(delivered, "done", full_reply_content',
                                collected_chunks))
  /\ UNCHANGED <<cfgVars, calls, start_time, reply_content, collected_chunks,
                 collected_messages, chunk_time, delivered>>

\* The transport fails while the loop waits for the next chunk: the for
\* statement raises and nothing catches it.
StreamError ==
  /\ pc = "loop"
  /\ pulls' = pulls + 1
  /\ stream' = "broken"
  /\ Raise("APIError")
  /\ firstRun' = Record(Outcome(delivered, "APIError", "", collected_chunks))
  /\ UNCHANGED <<cfgVars, defined, calls, start_time, kernelVars, delivered>>

\* Cell 6: collected_chunks[-1].
Cell6 ==
  /\ pc = "cell6"
  /\ IF collected_chunks = <<>>
     THEN Raise("IndexError")
     ELSE pc' = "end" /\ err' = err
  /\ UNCHANGED <<cfgVars, defined, calls, start_time, kernelVars, wireVars,
                 firstRun>>

\* The user runs cell 5 again in the same kernel.
RerunCell5 ==
  /\ pc \in {"end", "failed"}
  /\ "client" \in defined
  /\ calls["cell5"] \in 1..(MaxRuns - 1)
  /\ pc' = "cell5"
  /\ err' = ""
  /\ UNCHANGED <<cfgVars, defined, calls, start_time, kernelVars, wireVars,
                 firstRun>>

\* -------------------------------------------------------- specifications

Setup ==
  \/ Cell1
  \/ \E t \in Times, ok \in BOOLEAN, reply \in Replies : Cell2(t, ok, reply)
  \/ \E ok \in BOOLEAN : Cell4(ok)
  \/ \E t \in Times, ok \in BOOLEAN : Cell5(t, ok)

Next ==
  \/ Setup
  \/ \E chunk \in Chunks, t \in Times : PullChunk(chunk, t)
  \/ StreamClosed
  \/ StreamError
  \/ Cell6

\* Run All: the cells once, top to bottom.
Spec == Init /\ [][Next]_vars

NextRerun ==
  \/ Setup
  \/ \E chunk \in RerunChunks, t \in Times : PullChunk(chunk, t)
  \/ StreamClosed
  \/ StreamError
  \/ Cell6
  \/ RerunCell5

\* Run All, then the streaming cell again in the same kernel.
SpecRerun == Init /\ [][NextRerun]_vars

\* ---------------------------------------------------------------- claims

ZeroCalls == \A c \in DOMAIN calls : calls[c] = 0

\* A chunk carries content when its first choice holds a non-empty string.
CarriesContent(chunk) ==
  chunk.choices # <<>> /\ chunk.choices[1].content \notin {None, ""}

\* The contents, in order, of the chunks that carry content.
RECURSIVE TextOf(_)
TextOf(frags) ==
  IF frags = <<>> THEN ""
  ELSE (IF CarriesContent(Head(frags)) THEN Head(frags).choices[1].content
        ELSE "") \o TextOf(Tail(frags))

\* C1: whenever the consumer has produced its full text, that text is the
\* concatenation, in arrival order, of the contents of exactly the delivered
\* fragments that carry non-empty content: a fragment without content adds
\* nothing, a fragment with a role and content adds its content only.
C1_FullText ==
  (stream = "closed" /\ "full_reply_content" \in defined)
    => full_reply_content = TextOf(delivered)

\* C1 witness: the stream [{role}, {content: "Two"}, {}] was consumed.
C1_Witness ==
  /\ pc = "end"
  /\ delivered = <<RoleChunk, ContentChunk, EmptyChunk>>
  /\ full_reply_content = "Two"

\* The credential is absent once the .env file has been loaded: neither the
\* environment nor, where the variable is unset, the file holds a non-empty
\* GITHUB_TOKEN.
TokenAbsent == ~Truthy(LoadDotenv(env, dotenvFile)[GITHUB_TOKEN])

\* C2 as claimed: if GITHUB_TOKEN is unset in the environment when
\* configuration runs, configuration fails and no client is constructed.
C2_Original ==
  [][(pc = "cell1" /\ env[GITHUB_TOKEN] = Unset)
       => (pc' = "failed" /\ err' = "ValueError" /\ "client" \notin defined')]_vars

\* C2 amended: if GITHUB_TOKEN is unset or empty once the .env file has been
\* loaded, configuration fails with ValueError before any network call: no
\* client is constructed, no later cell runs and no request is ever issued.
C2_Amended ==
  TokenAbsent =>
    /\ ZeroCalls
    /\ "client" \notin defined
    /\ client = NoClient
    /\ pc \in {"cell1", "failed"}
    /\ (pc = "failed" => err = "ValueError")

\* C2 witness: configuration has failed on an empty GITHUB_TOKEN that the
\* .env file could not replace.
C2_Witness ==
  /\ pc = "failed"
  /\ err = "ValueError"
  /\ env[GITHUB_TOKEN] = ""
  /\ dotenvFile[GITHUB_TOKEN] = "ghp_file"

\* C3: when the stream fails after k delivered fragments, the error reaches
\* the caller (the run stops with the transport's error), the request is not
\* issued again, the failing pull is the last one, and the log holds exactly
\* the k delivered fragments in arrival order.
C3_NoRecovery ==
  stream = "broken" =>
    /\ pc = "failed"
    /\ err = "APIError"
    /\ calls["cell5"] = 1
    /\ pulls = Len(delivered) + 1
    /\ collected_chunks = delivered

\* C3 witness: the stream broke after two fragments.
C3_Witness ==
  /\ stream = "broken"
  /\ delivered = <<RoleChunk, ContentChunk>>
  /\ collected_chunks = delivered

\* C4: between iterations and after the loop, the log holds one entry per
\* successful pull and its i-th entry is the i-th fragment the transport
\* delivered, whether or not the fragment carries content.
C4_LogComplete ==
  stream # "none" =>
    /\ Len(collected_chunks) = Len(delivered)
    /\ \A i \in 1..Len(delivered) : collected_chunks[i] = delivered[i]

\* C4 witness: three fragments were pulled, two of them without content.
C4_Witness ==
  /\ pc = "loop"
  /\ delivered = <<EmptyChunk, ContentChunk, RoleChunk>>
  /\ collected_chunks = delivered

\* C5 as claimed: every elapsed time the loop records is >= 0 and is >= the
\* one recorded for the fragment before it.
C5_Claim ==
  [][(pc = "loop" /\ Len(delivered') = Len(delivered) + 1)
       => /\ chunk_time' >= 0
          /\ (Len(delivered) >= 1 => chunk_time' >= chunk_time)]_vars

\* C7: once the client exists, and so at every request, OPENAI_API_KEY holds
\* the value of GITHUB_TOKEN and OPENAI_BASE_URL the fixed endpoint, in the
\* environment and in what the client read at construction; while the
\* credential is absent, the two variables keep the values the environment
\* and the .env file gave them.
C7_State ==
  ("client" \in defined \/ ~ZeroCalls) =>
    /\ Truthy(env[GITHUB_TOKEN])
    /\ env[OPENAI_API_KEY] = env[GITHUB_TOKEN]
    /\ env[OPENAI_BASE_URL] = BaseUrl
    /\ client.api_key = env[GITHUB_TOKEN]
    /\ client.base_url = BaseUrl
C7_Step ==
  TokenAbsent =>
    \A k \in {OPENAI_API_KEY, OPENAI_BASE_URL} :
      env'[k] = LoadDotenv(env, dotenvFile)[k]
C8_Claim ==
  ( /\ firstRun.set
    /\ firstRun.status \in {"done", "NameError"}
    /\ stream = "closed"
    /\ firstRun.frags = delivered
    /\ (pc = "cell6" \/ (pc = "failed" /\ err = "NameError")) )
  => /\ firstRun.status = (IF pc = "cell6" THEN "done" ELSE "NameError")
     /\ (pc = "cell6" => firstRun.text = full_reply_content)
     /\ firstRun.log = collected_chunks

\* C9 as claimed: when the stream has closed without error, the consumer has
\* produced its result, the full text and the log of every fragment, and the
\* closing pull was the last one; for a stream of no fragments the result is
\* the empty text and the empty log.
C9_Claim ==
  stream = "closed" =>
    /\ pc \in {"cell6", "end"}
    /\ "full_reply_content" \in defined
    /\ full_reply_content = TextOf(delivered)
    /\ collected_chunks = delivered
    /\ pulls = Len(delivered) + 1

\* C10 as claimed: between iterations and after the loop, however it ended,
\* the two lists have the same length and collected_messages[i] is the delta
\* of the first choice of collected_chunks[i].
C10_Claim ==
  stream # "none" =>
    /\ Len(collected_chunks) = Len(collected_messages)
    /\ \A i \in 1..Len(collected_messages) :
         /\ collected_chunks[i].choices # <<>>
         /\ collected_messages[i] = collected_chunks[i].choices[1]
====
